---- MODULE Spec2Model ----
(***************************************************************************)
(* Model of the hostpath provisioner (src/main.go): the two handlers       *)
(* Provision and Delete of hostPathProvisioner, the configuration read by  *)
(* getEnv, and the filesystem they act on.                                 *)
(*                                                                         *)
(* Strings.  A Go string is modelled by the sequence of the pieces that    *)
(* splitting it at every "/" yields: "/data/ns1" is <<"", "data", "ns1">>, *)
(* "/data/" is <<"", "data", "">>, "" is <<"">> and "/" is <<"", "">>.     *)
(* Concatenating two strings with a "/" between them is then the           *)
(* concatenation of the two sequences.                                     *)
(*                                                                         *)
(* Filesystem.  fs maps every existing node (the sequence of names from    *)
(* the filesystem root, <<>> being "/") to its entry: a directory or a     *)
(* regular file, with its permission bits.  There are no symbolic links.   *)
(***************************************************************************)
EXTENDS Integers, Sequences, FiniteSets, TLC

VARIABLES
    provisionerName,  \* package variable provisionerName
    pvDir,            \* hostPathProvisioner.pvDir
    identity,         \* hostPathProvisioner.identity
    umask,            \* file mode creation mask of the process
    fs,               \* the filesystem
    fsBefore,         \* the filesystem when the last call started
    last,             \* the last call: its input and what it returned
    prev,             \* the call before the last one
    volumes,          \* descriptors returned by Provision and not yet deleted
    workers,          \* the concurrent Provision calls in flight
    calls             \* number of calls made so far

vars == <<provisionerName, pvDir, identity, umask, fs, fsBefore, last, prev,
          volumes, workers, calls>>

-----------------------------------------------------------------------------
(* Bounds of the model *)

\* number of calls the external controller makes
MaxCalls == 2
\* number of concurrent Provision calls
NumWorkers == 2

-----------------------------------------------------------------------------
(* Strings *)

EmptyString == <<"">>

defaultProvisionerName == <<"hostpath">>
defaultPVDir == <<"", "data">>
defaultIdentity == <<"hostpath-provisioner">>

identityAnnotation == "hostPathProvisionerIdentity"

\* os.Getenv(key) is env[key]; an unset variable reads as ""
getEnv(env, key, defaultValue) ==
    LET value == env[key]
    IN  IF value = EmptyString THEN defaultValue ELSE value

RECURSIVE CleanStack(_, _, _)
\* path.Clean's scan of the non-empty pieces: "." is dropped, ".." removes
\* the piece before it, is dropped at the root of a rooted path and is kept
\* at the start of a relative one
CleanStack(pieces, rooted, out) ==
    IF pieces = <<>> THEN out
    ELSE LET c == Head(pieces)
             rest == Tail(pieces)
         IN  IF c = "." THEN CleanStack(rest, rooted, out)
             ELSE IF c = ".."
                  THEN IF Len(out) > 0 /\ out[Len(out)] # ".."
                       THEN CleanStack(rest, rooted, SubSeq(out, 1, Len(out) - 1))
                       ELSE IF rooted THEN CleanStack(rest, rooted, out)
                            ELSE CleanStack(rest, rooted, Append(out, ".."))
                  ELSE CleanStack(rest, rooted, Append(out, c))

\* path.Clean
Clean(s) ==
    LET rooted == Len(s) >= 2 /\ s[1] = ""
        pieces == SelectSeq(s, LAMBDA c : c # "")
        out == CleanStack(pieces, rooted, <<>>)
    IN  IF rooted
        THEN IF out = <<>> THEN <<"", "">> ELSE <<"">> \o out
        ELSE IF out = <<>> THEN <<".">> ELSE out

RECURSIVE JoinBuf(_, _, _)
\* the loop of path.Join: leading empty elements are skipped, every later
\* element is appended after a "/"
JoinBuf(elem, buf, started) ==
    IF elem = <<>> THEN buf
    ELSE LET e == Head(elem)
         IN  IF started THEN JoinBuf(Tail(elem), buf \o e, TRUE)
             ELSE IF e # EmptyString THEN JoinBuf(Tail(elem), e, TRUE)
                  ELSE JoinBuf(Tail(elem), buf, FALSE)

\* path.Join
Join(elem) ==
    IF \A i \in 1..Len(elem) : elem[i] = EmptyString
    THEN EmptyString
    ELSE Clean(JoinBuf(elem, EmptyString, FALSE))

\* a + "/" + b + "/" + c, character for character
Concat3(a, b, c) == a \o b \o c

-----------------------------------------------------------------------------
(* Filesystem *)

Mode0777 == 511

RECURSIVE AndNot(_, _)
\* perm &^ mask on permission bits
AndNot(perm, mask) ==
    IF perm = 0 THEN 0
    ELSE 2 * AndNot(perm \div 2, mask \div 2)
         + (IF perm % 2 = 1 /\ mask % 2 = 0 THEN 1 ELSE 0)

Dir(mode) == [kind |-> "dir", mode |-> mode]
File(mode) == [kind |-> "file", mode |-> mode]

Parent(n) == SubSeq(n, 1, Len(n) - 1)

IsPrefix(a, b) == Len(a) <= Len(b) /\ SubSeq(b, 1, Len(a)) = a
\* b is a or lies beneath a
Under(a, b) == IsPrefix(a, b)
Beneath(a, b) == IsPrefix(a, b) /\ a # b

\* the node an absolute, clean path names
NodeOf(s) == IF s = <<"", "">> THEN <<>> ELSE Tail(s)

IsAbsClean(s) == Len(s) >= 2 /\ s[1] = "" /\ Clean(s) = s

\* stat(2): what is at node n
Stat(f, n) ==
    IF n \in DOMAIN f THEN f[n].kind
    ELSE IF \E k \in 0..(Len(n) - 1) :
                SubSeq(n, 1, k) \in DOMAIN f /\ f[SubSeq(n, 1, k)].kind = "file"
         THEN "ENOTDIR"
         ELSE "ENOENT"

\* mkdir(2) of node n with perm: the error, "nil" when the directory is made
MkdirErr(f, n, denied) ==
    IF n \in DOMAIN f THEN "EEXIST"
    ELSE IF Stat(f, Parent(n)) = "dir"
         THEN IF denied THEN "EACCES" ELSE "nil"
         ELSE IF Stat(f, Parent(n)) = "file" THEN "ENOTDIR"
              ELSE Stat(f, Parent(n))

WithEntry(f, n, e) ==
    [m \in (DOMAIN f) \cup {n} |-> IF m = n THEN e ELSE f[m]]

Mkdir(f, n, perm, mask, denied) ==
    LET err == MkdirErr(f, n, denied)
    IN  [fs |-> IF err = "nil" THEN WithEntry(f, n, Dir(AndNot(perm, mask))) ELSE f,
         err |-> err]

IsExist(err) == err \in {"EEXIST", "ENOTEMPTY"}

\* the system call the system refuses during a call, if any
NoFail == "none"

RECURSIVE MkdirAll(_, _, _, _, _)
\* os.MkdirAll: stat fast path, parents first, then mkdir, and a second look
\* at the node when mkdir fails
MkdirAll(f, n, perm, mask, fail) ==
    IF Stat(f, n) = "dir" THEN [fs |-> f, err |-> "nil"]
    ELSE IF Stat(f, n) = "file" THEN [fs |-> f, err |-> "ENOTDIR"]
    ELSE LET up == IF Len(n) > 0
                   THEN MkdirAll(f, Parent(n), perm, mask, fail)
                   ELSE [fs |-> f, err |-> "nil"]
         IN  IF up.err # "nil" THEN up
             ELSE LET made == Mkdir(up.fs, n, perm, mask,
                                    fail = "mkdir")
                  IN  IF made.err # "nil" /\ Stat(made.fs, n) = "dir"
                      THEN [fs |-> made.fs, err |-> "nil"]
                      ELSE made

\* a chmod that reports success and changes nothing
Chmod_NoChange(f, n, mode, fail) ==
    IF Stat(f, n) \notin {"dir", "file"} THEN [fs |-> f, err |-> Stat(f, n)]
    ELSE IF fail = "chmod" THEN [fs |-> f, err |-> "EPERM"]
    ELSE [fs |-> f, err |-> "nil"]

\* os.Chmod
Chmod(f, n, mode, fail) ==
    IF Stat(f, n) \notin {"dir", "file"} THEN [fs |-> f, err |-> Stat(f, n)]
    ELSE IF fail = "chmod" THEN [fs |-> f, err |-> "EPERM"]
    ELSE [fs |-> WithEntry(f, n, [kind |-> f[n].kind, mode |-> mode]),
          err |-> "nil"]

Without(f, gone) == [m \in (DOMAIN f) \ gone |-> f[m]]

endsWithDot(s) == s[Len(s)] = "."

\* a removal that takes the directory only when it is empty and reports
\* success either way
RemoveAll_Shallow(f, s, fail) ==
    IF s = EmptyString THEN [fs |-> f, err |-> "nil"]
    ELSE IF endsWithDot(s) THEN [fs |-> f, err |-> "EINVAL"]
    ELSE LET n == NodeOf(s)
             below == {m \in DOMAIN f : Beneath(n, m)}
         IN  IF Stat(f, n) = "ENOENT" THEN [fs |-> f, err |-> "nil"]
             ELSE IF Stat(f, n) = "ENOTDIR" THEN [fs |-> f, err |-> "ENOTDIR"]
             ELSE IF fail = "remove" THEN [fs |-> f, err |-> "EACCES"]
             ELSE IF fail = "rmdir" \/ n = <<>>
                  THEN [fs |-> Without(f, below), err |-> "EBUSY"]
             ELSE IF below = {} THEN [fs |-> Without(f, {n}), err |-> "nil"]
             ELSE [fs |-> f, err |-> "nil"]

\* os.RemoveAll on the path string s
RemoveAll(f, s, fail) ==
    IF s = EmptyString THEN [fs |-> f, err |-> "nil"]
    ELSE IF endsWithDot(s) THEN [fs |-> f, err |-> "EINVAL"]
    ELSE LET n == NodeOf(s)
             below == {m \in DOMAIN f : Beneath(n, m)}
         IN  IF Stat(f, n) = "ENOENT" THEN [fs |-> f, err |-> "nil"]
             ELSE IF Stat(f, n) = "ENOTDIR" THEN [fs |-> f, err |-> "ENOTDIR"]
             ELSE IF fail = "remove" THEN [fs |-> f, err |-> "EACCES"]
             ELSE IF fail = "rmdir" \/ n = <<>>
                  THEN [fs |-> Without(f, below), err |-> "EBUSY"]
             ELSE [fs |-> Without(f, below \cup {n}), err |-> "nil"]

-----------------------------------------------------------------------------
(* Provision *)

NoPV == [Name |-> EmptyString, Annotations |-> <<>>, ReclaimPolicy |-> "",
         AccessModes |-> {}, Capacity |-> 0, Path |-> EmptyString]

\* a path derived from the volume name instead of the claim name
pvPathOf_ByVolumeName(root, options) ==
    Join(<<root, options.Namespace, options.PVName>>)

\* pvPath := path.Join(p.pvDir, options.PVC.Namespace, options.PVC.Name)
pvPathOf(root, options) == Join(<<root, options.Namespace, options.Name>>)

\* a descriptor annotated with the default identity, whatever is configured
NewPV_DefaultIdentity(id, options, pvPath) ==
    [Name          |-> options.PVName,
     Annotations   |-> [k \in {identityAnnotation} |-> defaultIdentity],
     ReclaimPolicy |-> options.ReclaimPolicy,
     AccessModes   |-> options.AccessModes,
     Capacity      |-> options.Capacity,
     Path          |-> pvPath]

\* the core.PersistentVolume that Provision builds
NewPV(id, options, pvPath) ==
    [Name          |-> options.PVName,
     Annotations   |-> [k \in {identityAnnotation} |-> id],
     ReclaimPolicy |-> options.ReclaimPolicy,
     AccessModes   |-> options.AccessModes,
     Capacity      |-> options.Capacity,
     Path          |-> pvPath]

\* whether Provision gives up after os.MkdirAll returned err
MkdirAllFailed(err) == err # "nil" /\ ~IsExist(err)

\* a Provision that makes the directory with os.Mkdir and gives up on any
\* error, "already exists" included
ProvisionCall_PlainMkdir(f, root, id, mask, options, fail) ==
    LET pvPath == pvPathOf(root, options)
        up == MkdirAll(f, Parent(NodeOf(pvPath)), Mode0777, mask, fail)
        made == IF up.err # "nil" THEN up
                ELSE Mkdir(up.fs, NodeOf(pvPath), Mode0777, mask, fail = "mkdir")
        moded == Chmod(made.fs, NodeOf(pvPath), Mode0777, fail)
    IN  IF made.err # "nil"
        THEN [fs |-> made.fs, pv |-> NoPV, err |-> made.err]
        ELSE IF moded.err # "nil"
             THEN [fs |-> moded.fs, pv |-> NoPV, err |-> moded.err]
             ELSE [fs |-> moded.fs, pv |-> NewPV(id, options, pvPath),
                   err |-> "nil"]

\* hostPathProvisioner.Provision as a function of the state it reads
ProvisionCall(f, root, id, mask, options, fail) ==
    LET pvPath == pvPathOf(root, options)
        made == MkdirAll(f, NodeOf(pvPath), Mode0777, mask, fail)
        moded == Chmod(made.fs, NodeOf(pvPath), Mode0777, fail)
    IN  IF MkdirAllFailed(made.err)
        THEN [fs |-> made.fs, pv |-> NoPV, err |-> made.err]
        ELSE IF moded.err # "nil"
             THEN [fs |-> moded.fs, pv |-> NoPV, err |-> moded.err]
             ELSE [fs |-> moded.fs, pv |-> NewPV(id, options, pvPath),
                   err |-> "nil"]

-----------------------------------------------------------------------------
(* Delete *)

\* a Delete that never compares the annotation with the identity
DeleteDecision_NoComparison(id, volume) ==
    IF identityAnnotation \notin DOMAIN volume.Annotations
    THEN "identity annotation not found on PV"
    ELSE "remove"

\* a Delete that reads a missing annotation as the empty string
DeleteDecision_MissingAsEmpty(id, volume) ==
    LET ann == IF identityAnnotation \in DOMAIN volume.Annotations
               THEN volume.Annotations[identityAnnotation]
               ELSE EmptyString
    IN  IF ann # id THEN "IgnoredError" ELSE "remove"

\* the checks of Delete before it touches the filesystem
DeleteDecision(id, volume) ==
    IF identityAnnotation \notin DOMAIN volume.Annotations
    THEN "identity annotation not found on PV"
    ELSE IF volume.Annotations[identityAnnotation] # id
         THEN "IgnoredError"
         ELSE "remove"

\* hostPathProvisioner.Delete as a function of the state it reads
DeleteCall(f, id, volume, fail) ==
    LET decision == DeleteDecision(id, volume)
        removed == RemoveAll(f, volume.Path, fail)
    IN  IF decision # "remove" THEN [fs |-> f, err |-> decision, cause |-> "nil"]
        ELSE IF removed.err # "nil"
             THEN [fs |-> removed.fs, err |-> "removing hostpath PV",
                   cause |-> removed.err]
             ELSE [fs |-> removed.fs, err |-> "nil", cause |-> "nil"]

-----------------------------------------------------------------------------
(* Inputs *)

\* what the process may find in its environment at start
Environments ==
    {[PROVISIONER_NAME |-> EmptyString, PROVISIONER_DIR |-> d,
      PROVISIONER_ISSUER |-> i] :
        d \in {EmptyString, <<"", "data", "">>},
        i \in {EmptyString, <<"other">>}}

Umasks == {18}

Namespaces == {<<"ns1">>, <<"..">>, EmptyString}
ClaimNames == {<<"pvc-a">>, <<"pvc-b">>}
PVNames == {<<"pv-1">>, <<"pv-2">>}

\* the rest of a claim: each volume name belongs to one claim object
ClaimSpec(v) ==
    IF v = <<"pv-1">>
    THEN [policy |-> "Delete", modes |-> {"ReadWriteOnce"}, capacity |-> 1]
    ELSE [policy |-> "Retain", modes |-> {"ReadWriteMany"}, capacity |-> 2]

\* controller.ProvisionOptions, the fields Provision reads
ProvisionOptions ==
    {[PVName |-> v, Namespace |-> ns, Name |-> c,
      ReclaimPolicy |-> ClaimSpec(v).policy, AccessModes |-> ClaimSpec(v).modes,
      Capacity |-> ClaimSpec(v).capacity] :
        v \in PVNames, ns \in Namespaces, c \in ClaimNames}

ProvisionFails == {NoFail, "mkdir", "chmod"}

DeleteFails == {NoFail, "remove", "rmdir"}

\* the annotations a descriptor handed to Delete may carry
AnnotationSets ==
    {<<>>}
    \cup {[k \in {identityAnnotation} |-> a] : a \in {defaultIdentity, <<"other">>}}

\* the paths a descriptor handed to Delete may record
RecordedPaths ==
    {EmptyString,
     <<"", "data", "ns1", "pvc-a">>,
     <<"", "etc">>,
     <<"", "data", "ns1", "pvc-a", ".">>}

\* descriptors that did not come out of Provision of this process
ForeignVolumes ==
    {[Name |-> <<"pv-9">>, Annotations |-> a, ReclaimPolicy |-> "Delete",
      AccessModes |-> {"ReadWriteOnce"}, Capacity |-> 1, Path |-> p] :
        a \in AnnotationSets, p \in RecordedPaths}

\* filesystems the process may start on
Tree(entries) == [n \in {e[1] : e \in entries} |->
                     (CHOOSE e \in entries : e[1] = n)[2]]

BaseTree == {<< <<>>, Dir(493) >>, << <<"etc">>, Dir(493) >>,
             << <<"etc", "passwd">>, File(420) >>}

InitialTrees ==
    {Tree(BaseTree),
     Tree(BaseTree \cup {<< <<"data">>, Dir(493) >>}),
     Tree(BaseTree \cup {<< <<"data">>, Dir(493) >>,
                         << <<"data", "ns1">>, Dir(493) >>,
                         << <<"data", "ns1", "pvc-a">>, Dir(448) >>,
                         << <<"data", "ns1", "pvc-a", "f">>, File(420) >>,
                         << <<"data", "ns1", "pvc-a", "d">>, Dir(493) >>,
                         << <<"data", "ns1", "pvc-a", "d", "g">>, File(420) >>}),
     Tree(BaseTree \cup {<< <<"data">>, Dir(493) >>,
                         << <<"data", "ns1">>, File(420) >>}),
     Tree(BaseTree \cup {<< <<"data">>, Dir(493) >>,
                         << <<"data", "ns1">>, Dir(493) >>,
                         << <<"data", "ns1", "pvc-a">>, File(420) >>})}

-----------------------------------------------------------------------------
(* The calls *)

NoOptions == [PVName |-> EmptyString, Namespace |-> EmptyString,
              Name |-> EmptyString, ReclaimPolicy |-> "", AccessModes |-> {},
              Capacity |-> 0]

NoCall == [op |-> "none", options |-> NoOptions, volume |-> NoPV,
           persisted |-> FALSE, pv |-> NoPV, err |-> "nil", cause |-> "nil"]

NoWorker == [pc |-> "idle", options |-> NoOptions, pvPath |-> EmptyString,
             k |-> 0, err |-> "nil", pv |-> NoPV]

Workers == 1..NumWorkers

Init ==
    /\ \E env \in Environments :
        /\ provisionerName = getEnv(env, "PROVISIONER_NAME", defaultProvisionerName)
        /\ pvDir = getEnv(env, "PROVISIONER_DIR", defaultPVDir)
        /\ identity = getEnv(env, "PROVISIONER_ISSUER", defaultIdentity)
    /\ umask \in Umasks
    /\ fs \in InitialTrees
    /\ fsBefore = fs
    /\ last = NoCall
    /\ prev = NoCall
    /\ volumes = {}
    /\ workers = [w \in Workers |-> NoWorker]
    /\ calls = 0

\* the external controller calls Provision
Provision(options, fail) ==
    LET r == ProvisionCall(fs, pvDir, identity, umask, options, fail)
    IN  /\ calls < MaxCalls
        /\ calls' = calls + 1
        /\ \A v \in volumes :
               v.pv.Name = options.PVName
                   => v.Namespace = options.Namespace /\ v.Name = options.Name
        /\ fs' = r.fs
        /\ fsBefore' = fs
        /\ prev' = last
        /\ last' = [op |-> "Provision", options |-> options, volume |-> NoPV,
                    persisted |-> FALSE, pv |-> r.pv, err |-> r.err,
                    cause |-> "nil"]
        /\ volumes' = IF r.err = "nil"
                      THEN volumes \cup {[pv |-> r.pv,
                                          Namespace |-> options.Namespace,
                                          Name |-> options.Name]}
                      ELSE volumes
        /\ UNCHANGED <<provisionerName, pvDir, identity, umask, workers>>

\* the external controller calls Delete
Delete(volume, fail) ==
    LET r == DeleteCall(fs, identity, volume, fail)
    IN  /\ calls < MaxCalls
        /\ calls' = calls + 1
        /\ fs' = r.fs
        /\ fsBefore' = fs
        /\ prev' = last
        /\ last' = [op |-> "Delete", options |-> NoOptions, volume |-> volume,
                    persisted |-> (volume \in {v.pv : v \in volumes}),
                    pv |-> NoPV, err |-> r.err, cause |-> r.cause]
        /\ volumes' = IF r.err = "nil"
                      THEN {v \in volumes : v.pv.Name # volume.Name}
                      ELSE volumes
        /\ UNCHANGED <<provisionerName, pvDir, identity, umask, workers>>

Next ==
    \/ \E options \in ProvisionOptions, fail \in ProvisionFails :
           Provision(options, fail)
    \/ \E volume \in ForeignVolumes \cup {v.pv : v \in volumes},
          fail \in DeleteFails :
           Delete(volume, fail)

Spec == Init /\ [][Next]_vars

-----------------------------------------------------------------------------
(* Concurrent Provision calls, one system call at a time *)

\* the claims the controller's workers provision at the same time
ConcurrentOptions ==
    {o \in ProvisionOptions :
        /\ o.Namespace = <<"ns1">>
        /\ o.PVName = (IF o.Name = <<"pvc-a">> THEN <<"pv-1">> ELSE <<"pv-2">>)}

Prefix(n, k) == SubSeq(n, 1, k)

\* where a call goes once os.MkdirAll has returned err
AfterMkdirAll(w, err) ==
    IF MkdirAllFailed(err)
    THEN [workers[w] EXCEPT !.pc = "done", !.err = err]
    ELSE [workers[w] EXCEPT !.pc = "chmod", !.err = "nil"]

\* where os.MkdirAll goes once the directory Prefix(node, k) is there
AfterMade(w) ==
    IF workers[w].k = Len(NodeOf(workers[w].pvPath))
    THEN AfterMkdirAll(w, "nil")
    ELSE [workers[w] EXCEPT !.pc = "mkdir", !.k = @ + 1, !.err = "nil"]

\* a worker enters Provision and computes pvPath
Start(w, options) ==
    /\ workers[w].pc = "idle"
    /\ workers' = [workers EXCEPT ![w] =
           [pc |-> "stat", options |-> options,
            pvPath |-> pvPathOf(pvDir, options),
            k |-> Len(NodeOf(pvPathOf(pvDir, options))),
            err |-> "nil", pv |-> NoPV]]
    /\ UNCHANGED <<provisionerName, pvDir, identity, umask, fs, fsBefore, last,
                   prev, volumes, calls>>

\* os.MkdirAll looks at a directory of the path, the deepest first
StatStep(w) ==
    LET n == Prefix(NodeOf(workers[w].pvPath), workers[w].k)
    IN  /\ workers[w].pc = "stat"
        /\ workers' = [workers EXCEPT ![w] =
               IF Stat(fs, n) = "dir" THEN AfterMade(w)
               ELSE IF Stat(fs, n) = "file" THEN AfterMkdirAll(w, "ENOTDIR")
               ELSE [workers[w] EXCEPT !.k = @ - 1]]
        /\ UNCHANGED <<provisionerName, pvDir, identity, umask, fs, fsBefore,
                       last, prev, volumes, calls>>

\* os.MkdirAll makes one directory of the path
MkdirStep(w, denied) ==
    LET n == Prefix(NodeOf(workers[w].pvPath), workers[w].k)
        made == Mkdir(fs, n, Mode0777, umask, denied)
    IN  /\ workers[w].pc = "mkdir"
        /\ fs' = made.fs
        /\ workers' = [workers EXCEPT ![w] =
               IF made.err = "nil" THEN AfterMade(w)
               ELSE [workers[w] EXCEPT !.pc = "lstat", !.err = made.err]]
        /\ UNCHANGED <<provisionerName, pvDir, identity, umask, fsBefore, last,
                       prev, volumes, calls>>

\* an os.MkdirAll that returns the error of mkdir without a second look
LstatStep_NoSecondLook(w) ==
    /\ workers[w].pc = "lstat"
    /\ workers' = [workers EXCEPT ![w] = AfterMkdirAll(w, workers[w].err)]
    /\ UNCHANGED <<provisionerName, pvDir, identity, umask, fs, fsBefore,
                   last, prev, volumes, calls>>

\* os.MkdirAll looks again at a directory it could not make
LstatStep(w) ==
    LET n == Prefix(NodeOf(workers[w].pvPath), workers[w].k)
    IN  /\ workers[w].pc = "lstat"
        /\ workers' = [workers EXCEPT ![w] =
               IF Stat(fs, n) = "dir" THEN AfterMade(w)
               ELSE AfterMkdirAll(w, workers[w].err)]
        /\ UNCHANGED <<provisionerName, pvDir, identity, umask, fs, fsBefore,
                       last, prev, volumes, calls>>

\* os.Chmod, and the return of Provision
ChmodStep(w, fail) ==
    LET moded == Chmod(fs, NodeOf(workers[w].pvPath), Mode0777, fail)
    IN  /\ workers[w].pc = "chmod"
        /\ fs' = moded.fs
        /\ workers' = [workers EXCEPT ![w] =
               IF moded.err # "nil"
               THEN [workers[w] EXCEPT !.pc = "done", !.err = moded.err]
               ELSE [workers[w] EXCEPT !.pc = "done", !.err = "nil",
                        !.pv = NewPV(identity, workers[w].options,
                                     workers[w].pvPath)]]
        /\ UNCHANGED <<provisionerName, pvDir, identity, umask, fsBefore, last,
                       prev, volumes, calls>>

NextConcurrent ==
    \E w \in Workers :
        \/ \E options \in ConcurrentOptions : Start(w, options)
        \/ StatStep(w)
        \/ \E denied \in BOOLEAN : MkdirStep(w, denied)
        \/ LstatStep(w)
        \/ \E fail \in {NoFail, "chmod"} : ChmodStep(w, fail)

SpecConcurrent == Init /\ [][NextConcurrent]_vars

-----------------------------------------------------------------------------
(* Properties *)

HasIdentityAnnotation(volume) == identityAnnotation \in DOMAIN volume.Annotations

AnnotationOf(volume) == volume.Annotations[identityAnnotation]

\* errors that only a refused system call produces
Refusals == {"EACCES", "EPERM", "EBUSY"}

\* nothing exists at the path s or beneath it
Gone(f, s) ==
    s = EmptyString \/ \A m \in DOMAIN f : ~Under(NodeOf(s), m)

\* the nodes whose entry differs between two filesystems
Changed(f, g) ==
    {m \in (DOMAIN f) \cup (DOMAIN g) :
        \/ m \notin DOMAIN f
        \/ m \notin DOMAIN g
        \/ f[m] # g[m]}

\* C1: a Delete of a descriptor whose identity annotation is present and
\* differs from the configured identity returns the IgnoredError ("not mine")
\* and leaves every entry of the filesystem as it was, whatever path the
\* descriptor records.
C1_ForeignDeleteDeclined ==
    (/\ last.op = "Delete"
     /\ HasIdentityAnnotation(last.volume)
     /\ AnnotationOf(last.volume) # identity)
        => (last.err = "IgnoredError" /\ fs = fsBefore)

C1_Witness ==
    /\ last.op = "Delete"
    /\ HasIdentityAnnotation(last.volume)
    /\ AnnotationOf(last.volume) # identity
    /\ last.volume.Path = <<"", "data", "ns1", "pvc-a">>
    /\ <<"data", "ns1", "pvc-a", "f">> \in DOMAIN fs

\* C2: a Delete of a descriptor without identity annotation returns the
\* error "identity annotation not found on PV", which is neither success nor
\* the IgnoredError, and removes nothing: the filesystem is as it was.
C2_MissingAnnotationIsError ==
    (last.op = "Delete" /\ ~HasIdentityAnnotation(last.volume))
        => (/\ last.err = "identity annotation not found on PV"
            /\ last.err \notin {"nil", "IgnoredError"}
            /\ fs = fsBefore)

C2_Witness ==
    /\ last.op = "Delete"
    /\ ~HasIdentityAnnotation(last.volume)
    /\ last.volume.Path = <<"", "data", "ns1", "pvc-a">>
    /\ <<"data", "ns1", "pvc-a", "f">> \in DOMAIN fs

\* C3: a Delete of a descriptor whose identity annotation equals the
\* configured identity, when os.RemoveAll reports no error, returns success
\* and afterwards nothing exists at the recorded path or beneath it; it
\* succeeds as well when nothing was there before.
C3_OwnDeleteRemovesTree ==
    (/\ last.op = "Delete"
     /\ HasIdentityAnnotation(last.volume)
     /\ AnnotationOf(last.volume) = identity
     /\ last.cause = "nil")
        => (last.err = "nil" /\ Gone(fs, last.volume.Path))

C3_Witness ==
    /\ last.op = "Delete"
    /\ last.err = "nil"
    /\ HasIdentityAnnotation(last.volume)
    /\ last.volume.Path # EmptyString
    /\ \E m \in DOMAIN fsBefore : Beneath(NodeOf(last.volume.Path), m)
    /\ Gone(fs, last.volume.Path)

\* C4: when a successful Provision is followed at once by a Provision with
\* the same options, and no system call of the second is refused, the second
\* succeeds too, leaves the filesystem as the first left it and returns an
\* equal descriptor.
C4_ProvisionTwice ==
    (/\ prev.op = "Provision"
     /\ prev.err = "nil"
     /\ last.op = "Provision"
     /\ last.options = prev.options
     /\ last.err \notin Refusals)
        => (last.err = "nil" /\ fs = fsBefore /\ last.pv = prev.pv)

C4_Witness ==
    /\ prev.op = "Provision"
    /\ prev.err = "nil"
    /\ last.op = "Provision"
    /\ last.options = prev.options
    /\ last.err = "nil"
    /\ last.pv.Path = <<"", "data", "ns1", "pvc-b">>

\* C5: every descriptor a successful Provision returns carries the identity
\* annotation with the configured identity as its value, and a Delete that is
\* handed such a descriptor unchanged is neither declined with IgnoredError
\* nor rejected for a missing annotation.
C5_ProvisionedIsOwned ==
    /\ (last.op = "Provision" /\ last.err = "nil")
           => (/\ HasIdentityAnnotation(last.pv)
               /\ AnnotationOf(last.pv) = identity)
    /\ (last.op = "Delete" /\ last.persisted)
           => last.err \notin {"IgnoredError",
                               "identity annotation not found on PV"}

C5_Witness ==
    /\ prev.op = "Provision"
    /\ prev.err = "nil"
    /\ last.op = "Delete"
    /\ last.persisted
    /\ last.volume = prev.pv
    /\ last.err = "nil"
    /\ identity # defaultIdentity

\* a string that is one path element: not empty, not "." and not ".."
PlainElement(s) == Len(s) = 1 /\ s[1] \notin {"", ".", ".."}

C7_DirectoryMode0777 ==
    (last.op = "Provision" /\ last.err = "nil")
        => LET n == NodeOf(pvPathOf(pvDir, last.options))
           IN  /\ Stat(fs, n) = "dir"
               /\ fs[n].mode = Mode0777
               /\ \A m \in Changed(fsBefore, fs) : ~Beneath(n, m)

C7_Witness ==
    /\ last.op = "Provision"
    /\ last.err = "nil"
    /\ last.pv.Path = <<"", "data", "ns1", "pvc-a">>
    /\ <<"data", "ns1", "pvc-a">> \in DOMAIN fsBefore
    /\ fsBefore[<<"data", "ns1", "pvc-a">>].mode = 448
    /\ <<"data", "ns1", "pvc-a", "f">> \in DOMAIN fs

\* what one Provision alone would have done to the filesystem the workers
\* started on
SingleCall == ProvisionCall(fsBefore, pvDir, identity, umask,
                            workers[1].options, NoFail)

AllReturned ==
    /\ \A w \in Workers : workers[w].pc = "done"
    /\ \A w \in Workers : workers[w].options = workers[1].options

\* C8: when all concurrent Provision calls are for the same claim and have
\* returned, no system call was refused and one call alone would have
\* succeeded, then every call has returned success with the same path and
\* the filesystem is what one call alone would have left.
C8_ConcurrentProvisionIdempotent ==
    (/\ AllReturned
     /\ \A w \in Workers : workers[w].err \notin Refusals
     /\ SingleCall.err = "nil")
        => (/\ \A w \in Workers :
                   /\ workers[w].err = "nil"
                   /\ workers[w].pv.Path = workers[1].pv.Path
                   /\ workers[w].pv.Path = SingleCall.pv.Path
            /\ fs = SingleCall.fs
            /\ fs[NodeOf(SingleCall.pv.Path)] = Dir(Mode0777))

C8_Witness ==
    /\ AllReturned
    /\ \A w \in Workers : workers[w].err = "nil"
    /\ <<"data">> \notin DOMAIN fsBefore
    /\ fs = SingleCall.fs

\* C9: two volumes that were provisioned under distinct volume names and not
\* deleted have distinct backing directories.  It is stated here for the
\* claims whose namespace and name are plain elements only, which the
\* statement for all claims implies.
C9_OneDirectoryPerVolume ==
    \A a \in volumes, b \in volumes :
        (/\ PlainElement(a.Namespace) /\ PlainElement(a.Name)
         /\ PlainElement(b.Namespace) /\ PlainElement(b.Name)
         /\ a.pv.Name # b.pv.Name)
            => a.pv.Path # b.pv.Path

\* C10: no call creates, chmods or removes anything outside the subtree
\* under the configured root.
C10_OnlyUnderRoot ==
    \A m \in Changed(fsBefore, fs) : Under(NodeOf(Clean(pvDir)), m)

====
